---- MODULE Spec2Model ----
(***************************************************************************)
(* echoserver: the request handlers (/, /health, /panic, /status,          *)
(* /timeout, /headersize, /request, /fibonacci) and the middleware chains  *)
(* that wrap them, for the revisions                                       *)
(* of the server that the repository holds.                                *)
(*                                                                         *)
(* Every handler except /timeout runs to completion in one step (the      *)
(* handlers share no state); /timeout blocks its own goroutine in          *)
(* time.Sleep while other requests are served.  The state holds the        *)
(* requests that sleep and the response that was completed last.  A        *)
(* second specification keeps /request in flight too and lets callers go   *)
(* away; a third one is the gRPC server with its request ids.              *)
(*                                                                         *)
(* Query parameters are sequences of one-character strings so that the     *)
(* parsers (strconv.Atoi, time.ParseDuration) are computed character by    *)
(* character.  Response bodies and log texts are strings.                  *)
(***************************************************************************)
EXTENDS Integers, Sequences, FiniteSets, TLC

\* Number of requests that sleep in their handler at the same time.
MaxReqs == 2

\* Longest /timeout duration, in seconds, that a client asks for.
MaxSleep == 2

\* Largest size a client asks /headersize for, the size of the test aside.
MaxSize == 3

\* Largest n that fibonacci is computed for.
MaxFib == 20
MaxCalls == 2
MaxFrames == 2

(***************************************************************************)
(* Strings and the standard-library conversions the handlers call.         *)
(***************************************************************************)

Digits == {"0", "1", "2", "3", "4", "5", "6", "7", "8", "9"}

DigitVal(c) ==
    CASE c = "0" -> 0 [] c = "1" -> 1 [] c = "2" -> 2 [] c = "3" -> 3
      [] c = "4" -> 4 [] c = "5" -> 5 [] c = "6" -> 6 [] c = "7" -> 7
      [] c = "8" -> 8 [] c = "9" -> 9

DigitChar(n) ==
    CASE n = 0 -> "0" [] n = 1 -> "1" [] n = 2 -> "2" [] n = 3 -> "3"
      [] n = 4 -> "4" [] n = 5 -> "5" [] n = 6 -> "6" [] n = 7 -> "7"
      [] n = 8 -> "8" [] n = 9 -> "9"

\* The Go string a character sequence stands for.
RECURSIVE Join(_)
Join(s) == IF s = <<>> THEN "" ELSE Head(s) \o Join(Tail(s))

\* strconv.Itoa for n >= 0: how a client writes a number into the query.
RECURSIVE Itoa(_)
Itoa(n) == IF n < 10 THEN <<DigitChar(n)>> ELSE Itoa(n \div 10) \o <<DigitChar(n % 10)>>

\* An integer as fmt prints it.
IntText(n) == IF n < 0 THEN "-" \o Join(Itoa(0 - n)) ELSE Join(Itoa(n))

\* n*10 + digit over a run of digits (the loop of strconv.Atoi).
RECURSIVE DigitsValue(_, _)
DigitsValue(s, n) ==
    IF s = <<>> THEN n ELSE DigitsValue(Tail(s), n * 10 + DigitVal(Head(s)))

AllDigits(s) == \A k \in 1..Len(s) : s[k] \in Digits

\* strconv.Atoi: an optional sign and at least one digit, nothing else.
\* The inputs are short, so the range error of a too long number never arises.
Atoi(s) ==
    LET signed == Len(s) > 0 /\ s[1] \in {"-", "+"}
        body == IF signed THEN Tail(s) ELSE s
    IN  IF Len(body) = 0 \/ ~AllDigits(body)
        THEN [ok |-> FALSE, val |-> 0,
              err |-> "strconv.Atoi: parsing \"" \o Join(s) \o "\": invalid syntax"]
        ELSE [ok |-> TRUE,
              val |-> IF signed /\ s[1] = "-" THEN 0 - DigitsValue(body, 0)
                      ELSE DigitsValue(body, 0),
              err |-> ""]

\* The longest prefix of s made of digits.
RECURSIVE LeadingDigits(_)
LeadingDigits(s) ==
    IF s = <<>> \/ Head(s) \notin Digits THEN <<>>
    ELSE <<Head(s)>> \o LeadingDigits(Tail(s))

\* Seconds in one unit of time.ParseDuration; the sub-second units last less
\* than one tick of the model's clock.
UnitSeconds(u) ==
    CASE u = <<"h">> -> 3600 [] u = <<"m">> -> 60 [] u = <<"s">> -> 1
      [] OTHER -> 0

DurationUnits == {<<"n", "s">>, <<"u", "s">>, <<"m", "s">>, <<"s">>, <<"m">>, <<"h">>}

\* time.ParseDuration on [-+]?digits unit: "" and a text without leading
\* digits are invalid, "0" alone is zero, a number without a unit or with an
\* unknown unit is an error.  (Fractions and sums of several units are not in
\* the alphabet of the requests.)
ParseDuration(s) ==
    LET signed == Len(s) > 0 /\ s[1] \in {"-", "+"}
        body == IF signed THEN Tail(s) ELSE s
        num == LeadingDigits(body)
        unit == SubSeq(body, Len(num) + 1, Len(body))
        bad(msg) == [ok |-> FALSE, d |-> 0,
                     err |-> "time: " \o msg \o " \"" \o Join(s) \o "\""]
    IN  IF body = <<>> THEN bad("invalid duration")
        ELSE IF body = <<"0">> THEN [ok |-> TRUE, d |-> 0, err |-> ""]
        ELSE IF num = <<>> THEN bad("invalid duration")
        ELSE IF unit = <<>> THEN bad("missing unit in duration")
        ELSE IF unit \notin DurationUnits THEN bad("unknown unit in duration")
        ELSE [ok |-> TRUE,
              d |-> (IF signed /\ s[1] = "-" THEN -1 ELSE 1)
                        * DigitsValue(num, 0) * UnitSeconds(unit),
              err |-> ""]

\* http.StatusText for the codes the requests use; "" for an unassigned code.
StatusText(code) ==
    CASE code = 100 -> "Continue"
      [] code = 101 -> "Switching Protocols"
      [] code = 200 -> "OK"
      [] code = 204 -> "No Content"
      [] code = 300 -> "Multiple Choices"
      [] code = 400 -> "Bad Request"
      [] code = 404 -> "Not Found"
      [] code = 500 -> "Internal Server Error"
      [] code = 502 -> "Bad Gateway"
      [] code = 503 -> "Service Unavailable"
      [] OTHER -> ""

(***************************************************************************)
(* Panic values and the response writer.                                   *)
(***************************************************************************)

NoPanic == [kind |-> "none", text |-> ""]

PanicString(s) == [kind |-> "string", text |-> s]

\* http.ErrAbortHandler, the sentinel error the recovery middleware lets be.
ErrAbortHandler == [kind |-> "error", text |-> "net/http: abort Handler"]

\* fmt.Sprintf("%#v", v): a string in Go syntax, an error as its struct.
GoSyntax(v) ==
    IF v.kind = "string" THEN "\"" \o v.text \o "\""
    ELSE "&errors.errorString{s:\"" \o v.text \o "\"}"

\* A response writer nothing was written to: code 0 is "no status yet", hdr
\* the header lines the handler added.
NewWriter == [code |-> 0, body |-> "", hdr |-> <<>>]

\* w.Header().Add(key, value).
HeaderAdd(w, key, value) == [w EXCEPT !.hdr = Append(@, [key |-> key, val |-> value])]

\* w.Header().Values(key).
HeaderValues(w, key) ==
    LET at == {k \in 1..Len(w.hdr) : w.hdr[k].key = key}
    IN  [k \in 1..Cardinality(at) |->
            w.hdr[CHOOSE j \in at : Cardinality({i \in at : i <= j}) = k].val]

ValidHeaderCode(code) == code >= 100 /\ code <= 999

\* ResponseWriter.WriteHeader: the first status wins.
WriteHeader(w, code) == IF w.code = 0 THEN [w EXCEPT !.code = code] ELSE w

\* ResponseWriter.Write: commits 200 when no status was written.
Write(w, text) == [WriteHeader(w, 200) EXCEPT !.body = @ \o text]

\* http.Error: the status, then the message and a newline.
HttpError(w, msg, code) == Write(WriteHeader(w, code), msg \o "\n")

\* render.Status followed by render.PlainText (or render.Data): the status
\* kept in the request context is written, then the body.  WriteHeader
\* panics on a code outside 100..999.
Render(w, status, text) ==
    IF ValidHeaderCode(status)
    THEN [w |-> Write(WriteHeader(w, status), text), panic |-> NoPanic, logs |-> <<>>]
    ELSE [w |-> w, panic |-> PanicString("invalid WriteHeader code " \o IntText(status)),
          logs |-> <<>>]

\* A log line.  rid: the context it is logged with carries the request id
\* (set by the request-id middleware for the lines logged inside it).
LogLine(level, msg, status) ==
    [level |-> level, msg |-> msg, status |-> status, rid |-> FALSE]

\* A handler's early return on bad input: one error log line and http.Error.
Fail(w, logmsg, err, code) ==
    [w |-> HttpError(w, err, code), panic |-> NoPanic,
     logs |-> <<LogLine("ERROR", logmsg, 0)>>]

(***************************************************************************)
(* Requests.  path is the URL path, has/val the query parameter the        *)
(* handler reads (status or timeout), rnd the index the random source      *)
(* hands to /status (-1: the source failed), pval the value a test         *)
(* handler panics with.                                                    *)
(***************************************************************************)

\* r.URL.Query().Get(key): "" for an absent key.
QueryGet(r) == IF r.has THEN r.val ELSE <<>>

\* httputil.DumpRequest of a request without headers and body.
Dump(r) == "GET " \o r.path \o " HTTP/1.1\r\n\r\n"

RandomToken == <<"r", "a", "n", "d", "o", "m">>

\* A faulty table with a code outside the set; C7 rejects it.
RandomStatusCodesWith504 == <<200, 200, 200, 200, 200, 400, 500, 502, 504>>

\* randomStatusCodes, the table /status draws from.
RandomStatusCodes == <<200, 200, 200, 200, 200, 400, 500, 502, 503>>

(***************************************************************************)
(* The handlers of cmd/echoserver/handlers.go.  A handler's result is the  *)
(* writer it leaves, the panic it raised (NoPanic when it returned) and    *)
(* the log lines it wrote itself.                                          *)
(***************************************************************************)

echoHandler(r, w) == Render(w, 200, Dump(r))

healthHandler(r, w) == Render(w, 200, "OK")

panicHandler(r, w) == [w |-> w, panic |-> PanicString("panic test"), logs |-> <<>>]

\* A faulty /status handler that answers 200 whatever was asked; C6
\* rejects it.
statusHandlerAlwaysOK(r, w) == Render(w, 200, StatusText(200))

statusHandler(r, w) ==
    LET statusString == QueryGet(r)
        parsed == Atoi(statusString)
    IN  IF statusString = <<>> \/ statusString = RandomToken
        THEN IF r.rnd < 0
             THEN Fail(w, "Failed to generate random index.", "rand: read failed", 500)
             ELSE Render(w, RandomStatusCodes[r.rnd + 1],
                         StatusText(RandomStatusCodes[r.rnd + 1]))
        ELSE IF ~parsed.ok
        THEN Fail(w, "Failed to parse 'status' parameter.", parsed.err, 400)
        ELSE Render(w, parsed.val, StatusText(parsed.val))

\* The duration timeoutHandler hands to time.Sleep, or 0 when it returns
\* before it sleeps (time.Sleep returns at once for d <= 0).
timeoutSleep(r) ==
    LET timeoutString == QueryGet(r)
        parsed == ParseDuration(timeoutString)
    IN  IF timeoutString = <<>> \/ ~parsed.ok \/ parsed.d <= 0 THEN 0 ELSE parsed.d

\* What timeoutHandler has written when it enters time.Sleep: nothing.
timeoutBeforeSleep(r, w) == w

\* timeoutHandler from its first line to its return, the sleep over.
timeoutHandler(r, w) ==
    LET timeoutString == QueryGet(r)
        parsed == ParseDuration(timeoutString)
    IN  IF timeoutString = <<>>
        THEN Fail(w, "Parameter 'timeout' is missing.", "timeout parameter is missing", 400)
        ELSE IF ~parsed.ok
        THEN Fail(w, "Failed to parse 'timeout' parameter.", parsed.err, 400)
        ELSE Render(w, 200, StatusText(200))

\* strings.Repeat(s, count) for count >= 0 (it panics on a negative count).
RECURSIVE Repeat(_, _)
Repeat(s, count) == IF count <= 0 THEN "" ELSE s \o Repeat(s, count - 1)

\* A faulty /headersize handler that adds no header for size 0; C12 rejects
\* it.
headerSizeHandlerSkipsEmpty(r, w) ==
    LET headerSizeString == QueryGet(r)
        parsed == Atoi(headerSizeString)
    IN  IF headerSizeString = <<>>
        THEN Fail(w, "Parameter 'size' is missing.", "size parameter is missing", 400)
        ELSE IF ~parsed.ok
        THEN Fail(w, "Failed to parse 'size' parameter.", parsed.err, 400)
        ELSE IF parsed.val < 0
        THEN [w |-> w, panic |-> PanicString("strings: negative Repeat count"),
              logs |-> <<>>]
        ELSE IF parsed.val = 0 THEN Render(w, 200, StatusText(200))
        ELSE Render(HeaderAdd(w, "X-Header-Size", Repeat("0", parsed.val)),
                    200, StatusText(200))

\* headerSizeHandler: the size is parsed with strconv.Atoi, which takes a
\* sign, and handed to strings.Repeat as it is.
headerSizeHandler(r, w) ==
    LET headerSizeString == QueryGet(r)
        parsed == Atoi(headerSizeString)
    IN  IF headerSizeString = <<>>
        THEN Fail(w, "Parameter 'size' is missing.", "size parameter is missing", 400)
        ELSE IF ~parsed.ok
        THEN Fail(w, "Failed to parse 'size' parameter.", parsed.err, 400)
        ELSE IF parsed.val < 0
        THEN [w |-> w, panic |-> PanicString("strings: negative Repeat count"),
              logs |-> <<>>]
        ELSE Render(HeaderAdd(w, "X-Header-Size", Repeat("0", parsed.val)),
                    200, StatusText(200))

\* strconv.ParseUint(s, 10, 64): digits only, no sign.
ParseUint(s) ==
    IF Len(s) = 0 \/ ~AllDigits(s)
    THEN [ok |-> FALSE, val |-> 0,
          err |-> "strconv.ParseUint: parsing \"" \o Join(s) \o "\": invalid syntax"]
    ELSE [ok |-> TRUE, val |-> DigitsValue(s, 0), err |-> ""]

\* A faulty fast doubling with a wrong sign in F(2k); C14 rejects it.
RECURSIVE fibonacciWrongSign(_)
fibonacciWrongSign(n) ==
    IF n = 0 THEN <<0, 1>>
    ELSE LET ab == fibonacciWrongSign(n \div 2)
             a == ab[1]
             b == ab[2]
             c == a * (b * 2 + a)
             d == a * a + b * b
         IN  IF n % 2 = 0 THEN <<c, d>> ELSE <<d, d + c>>

\* fibonacci(n) by fast doubling: the pair of its two results.
RECURSIVE fibonacci(_)
fibonacci(n) ==
    IF n = 0 THEN <<0, 1>>
    ELSE LET ab == fibonacci(n \div 2)
             a == ab[1]
             b == ab[2]
             c == a * (b * 2 - a)
             d == a * a + b * b
         IN  IF n % 2 = 0 THEN <<c, d>> ELSE <<d, d + c>>

fibonacciHandler(r, w) ==
    LET nString == QueryGet(r)
        parsed == ParseUint(nString)
    IN  IF nString = <<>>
        THEN Fail(w, "Parameter 'n' is missing.", "n parameter is missing", 400)
        ELSE IF ~parsed.ok
        THEN Fail(w, "Failed to parse 'n' parameter.", parsed.err, 400)
        ELSE Render(w, 200, IntText(fibonacci(parsed.val)[1]))

\* What the relay's outbound call meets, one entry per request the client
\* sends: a response (status, body, whether it names a Location, whether
\* its body can be read to the end) or a transport error.
Response(status, body, location, readable) ==
    [kind |-> "response", status |-> status, body |-> body, location |-> location,
     readable |-> readable, text |-> ""]

TransportError(text) ==
    [kind |-> "error", status |-> 0, body |-> "", location |-> FALSE,
     readable |-> FALSE, text |-> text]

\* The codes http.Client follows to the Location of the response.
RedirectCodes == {301, 302, 303, 307, 308}

\* httpClient.Do: the client has no CheckRedirect, so it follows a redirect
\* that names a Location and hands back the response of the last request.
RECURSIVE ClientDo(_)
ClientDo(hops) ==
    LET first == hops[1]
    IN  IF first.kind = "response" /\ first.status \in RedirectCodes
           /\ first.location /\ Len(hops) > 1
        THEN ClientDo(Tail(hops))
        ELSE first

\* httpClient.Do when the context of the request is cancelled.
ContextCanceled == TransportError("context canceled")

\* A faulty relay that answers a transport error with 500; C16 rejects it.
requestFinish500(r, w, resp) ==
    IF ~r.far.json
    THEN Fail(w, "Failed to decode request body.",
              "invalid character '}' looking for beginning of value", 400)
    ELSE IF ~r.far.req
    THEN Fail(w, "Failed to create http request.", "net/http: invalid method", 400)
    ELSE IF resp.kind = "error"
    THEN Fail(w, "Failed to do http request.", resp.text, 500)
    ELSE IF ~resp.readable
    THEN Fail(w, "Failed to read reespons body.", "unexpected EOF", 400)
    ELSE Render(w, resp.status, resp.body)

\* requestHandler, the outbound call having returned resp.
requestFinish(r, w, resp) ==
    IF ~r.far.json
    THEN Fail(w, "Failed to decode request body.",
              "invalid character '}' looking for beginning of value", 400)
    ELSE IF ~r.far.req
    THEN Fail(w, "Failed to create http request.", "net/http: invalid method", 400)
    ELSE IF resp.kind = "error"
    THEN Fail(w, "Failed to do http request.", resp.text, 400)
    ELSE IF ~resp.readable
    THEN Fail(w, "Failed to read reespons body.", "unexpected EOF", 400)
    ELSE Render(w, resp.status, resp.body)

requestHandler(r, w) == requestFinish(r, w, ClientDo(r.far.hops))

\* chi's answer to a path no route matches: http.NotFound.
notFound(r, w) == [w |-> HttpError(w, "404 page not found", 404), panic |-> NoPanic,
                   logs |-> <<>>]

(***************************************************************************)
(* The handlers of the first revisions, closures of main(): no render      *)
(* package, the status is written with w.WriteHeader and no body follows.  *)
(***************************************************************************)

\* w.WriteHeader(code) as the last statement of a handler.
WriteHeaderOnly(w, code) ==
    IF ValidHeaderCode(code)
    THEN [w |-> WriteHeader(w, code), panic |-> NoPanic, logs |-> <<>>]
    ELSE [w |-> w, panic |-> PanicString("invalid WriteHeader code " \o IntText(code)),
          logs |-> <<>>]

\* http.Error as the last statement of a handler that does not log.
ErrorOnly(w, msg, code) == [w |-> HttpError(w, msg, code), panic |-> NoPanic, logs |-> <<>>]

\* fmt.Fprintf(w, ...) as the last statement of a handler.
PrintOnly(w, text) == [w |-> Write(w, text), panic |-> NoPanic, logs |-> <<>>]

\* /status of the second main(): Query().Get, parse failure answered 500.
statusMain1(r, w) ==
    LET statusString == QueryGet(r)
        parsed == Atoi(statusString)
    IN  IF statusString = <<>> \/ statusString = RandomToken
        THEN WriteHeaderOnly(w, RandomStatusCodes[r.rnd + 1])
        ELSE IF ~parsed.ok THEN ErrorOnly(w, parsed.err, 500)
        ELSE WriteHeaderOnly(w, parsed.val)

\* /status of the first main(): Query()["status"].
statusMain0(r, w) ==
    LET parsed == Atoi(r.val)
    IN  IF ~r.has \/ Len(r.val) < 1 \/ r.val = RandomToken
        THEN WriteHeaderOnly(w, RandomStatusCodes[r.rnd + 1])
        ELSE IF parsed.ok THEN WriteHeaderOnly(w, parsed.val)
        ELSE ErrorOnly(w, parsed.err, 500)

\* /timeout of the second main(): missing is 400, unparseable is 500.
timeoutMain1(r, w) ==
    LET timeoutString == QueryGet(r)
        parsed == ParseDuration(timeoutString)
    IN  IF timeoutString = <<>> THEN ErrorOnly(w, "timout parameter is missing", 400)
        ELSE IF ~parsed.ok THEN ErrorOnly(w, parsed.err, 500)
        ELSE WriteHeaderOnly(w, 200)

timeoutSleepMain1(r) == timeoutSleep(r)

\* /timeout of the first main(): Query()["timeout"]; an absent key is
\* answered 200 at once, and the test on the length is on the list of
\* values, so an empty value goes on to the parser.
timeoutMain0(r, w) ==
    LET parsed == ParseDuration(r.val)
    IN  IF ~r.has THEN WriteHeaderOnly(w, 200)
        ELSE IF ~parsed.ok THEN ErrorOnly(w, parsed.err, 500)
        ELSE WriteHeaderOnly(w, 200)

timeoutSleepMain0(r) ==
    LET parsed == ParseDuration(r.val)
    IN  IF ~r.has \/ ~parsed.ok \/ parsed.d <= 0 THEN 0 ELSE parsed.d

\* /headersize of the second main(): a parse failure is answered 500.
headersizeMain1(r, w) ==
    LET headerSizeString == QueryGet(r)
        parsed == Atoi(headerSizeString)
    IN  IF headerSizeString = <<>> THEN ErrorOnly(w, "size parameter is missing", 400)
        ELSE IF ~parsed.ok THEN ErrorOnly(w, parsed.err, 500)
        ELSE IF parsed.val < 0
        THEN [w |-> w, panic |-> PanicString("strings: negative Repeat count"),
              logs |-> <<>>]
        ELSE WriteHeaderOnly(HeaderAdd(w, "X-Header-Size", Repeat("0", parsed.val)), 200)

\* / of main(): the dump, printed (with %q in the first revision).
echoMain(r, w) == PrintOnly(w, Dump(r))

\* /health of main().
healthMain(r, w) == PrintOnly(w, "OK")

(***************************************************************************)
(* The handlers of the middleware tests.                                   *)
(***************************************************************************)

testOK(r, w) == Render(w, 200, StatusText(200))

test500(r, w) == Render(w, 500, StatusText(500))

testPanic(r, w) == [w |-> w, panic |-> r.pval, logs |-> <<>>]

\* A handler that commits 201 and a part of its body and panics then.
testWritePanic(r, w) ==
    [w |-> Write(WriteHeader(w, 201), "partial"), panic |-> r.pval, logs |-> <<>>]

(***************************************************************************)
(* Middleware.  Each is a function of what the handler chain inside it     *)
(* returned: the writer, the panic still travelling outwards, the log      *)
(* lines, the increments of the request counter (each labelled with a      *)
(* status code) and the number of panics turned into a 500 response.       *)
(***************************************************************************)

\* httpsnoop's Metrics.Code: the first status written through the wrapped
\* writer, http.StatusOK when the handler wrote none.
MetricsCode(w) == IF w.code = 0 THEN 200 ELSE w.code

\* The "Request completed." line at the severity the status calls for.
CompletedBySeverity(status) ==
    LogLine(IF status >= 500 THEN "ERROR" ELSE "INFO", "Request completed.", status)

\* A faulty recovery middleware that lets the panic pass; C2 rejects it.
recovererHandlerLetsPass(x) == x

\* recoverer.Handler: recover() ends every panic; all but
\* http.ErrAbortHandler are logged and answered with http.Error.
recovererHandler(x) ==
    IF x.panic # NoPanic /\ x.panic # ErrAbortHandler
    THEN [x EXCEPT !.w = HttpError(x.w, GoSyntax(x.panic), 500),
                   !.panic = NoPanic,
                   !.logs = Append(@, LogLine("ERROR", "Recover panic.", 0)),
                   !.recovered = @ + 1]
    ELSE [x EXCEPT !.panic = NoPanic]

\* The request-id middleware: it only adds the id to the context of the
\* request it hands to next, so the lines logged inside it carry the id.
requestidHandler(x) ==
    [x EXCEPT !.logs = [k \in DOMAIN @ |-> [@[k] EXCEPT !.rid = TRUE]]]

\* instrument.Handler of the revision that counts with Prometheus
\* (handleInstrumentation): on a panic it records 500 and panics again,
\* otherwise it records Metrics.Code.
handleInstrumentation(x) ==
    IF x.panic # NoPanic
    THEN [x EXCEPT !.counts = Append(@, 500),
                   !.logs = Append(@, LogLine("ERROR", "Request completed.", 500))]
    ELSE [x EXCEPT !.counts = Append(@, MetricsCode(x.w)),
                   !.logs = Append(@, CompletedBySeverity(MetricsCode(x.w)))]

\* handleTraces: the span, and the recovery of a panic into http.Error.
handleTraces(x) ==
    IF x.panic # NoPanic
    THEN [x EXCEPT !.logs = Append(@, LogLine("ERROR", "Recover panic.", 0)),
                   !.w = HttpError(x.w, GoSyntax(x.panic), 500),
                   !.panic = NoPanic,
                   !.recovered = @ + 1]
    ELSE x

\* handleMetricsAndLogs: the counter and the log line, from Metrics.Code.
handleMetricsAndLogs(x) ==
    [x EXCEPT !.counts = Append(@, MetricsCode(x.w)),
              !.logs = Append(@, CompletedBySeverity(MetricsCode(x.w)))]

\* instrument.Handler of the OpenTelemetry revision: handleTraces inside
\* CaptureMetrics, then handleMetricsAndLogs.
instrumentHandlerOtel(x) == handleMetricsAndLogs(handleTraces(x))

\* instrument.Handler of the net/http mux revision: CaptureMetrics, then one
\* slog.InfoContext line; a panic of the handler passes through it.
instrumentHandler(x) ==
    IF x.panic # NoPanic THEN x
    ELSE [x EXCEPT !.logs = Append(@, LogLine("INFO", "Request completed.", MetricsCode(x.w)))]

Middleware(name, x) ==
    CASE name = "recoverer" -> recovererHandler(x)
      [] name = "requestid" -> requestidHandler(x)
      [] name = "instrumentProm" -> handleInstrumentation(x)
      [] name = "instrumentOtel" -> instrumentHandlerOtel(x)
      [] name = "instrumentLog" -> instrumentHandler(x)

\* The chain around a handler, outermost first: the innermost runs first on
\* the way out.
RECURSIVE ApplyChain(_, _)
ApplyChain(chain, x) ==
    IF chain = <<>> THEN x
    ELSE ApplyChain(SubSeq(chain, 1, Len(chain) - 1), Middleware(chain[Len(chain)], x))

(***************************************************************************)
(* Configurations: the servers the revisions build and the harnesses of    *)
(* the middleware tests.                                                   *)
(***************************************************************************)

\* run() of cmd/echoserver: chi with recoverer, RequestID, instrument.
\* NewChi: httpserver.New on chi.  NewMux: httpserver.New on http.ServeMux.
ServerConfigs == {"run", "NewChi", "NewMux"}

TestConfigs == {"TestRecoverer", "TestInstrumentProm", "TestInstrumentOtel",
                "TestInstrumentLog"}

\* The two revisions of main() that serve from closures.
LegacyConfigs == {"main0", "main1"}

Chain(c) ==
    CASE c = "run" -> <<"recoverer", "requestid", "instrumentProm">>
      [] c = "NewChi" -> <<"requestid", "instrumentOtel">>
      [] c = "NewMux" -> <<"requestid", "instrumentLog">>
      [] c = "TestRecoverer" -> <<"recoverer">>
      [] c = "TestInstrumentProm" -> <<"instrumentProm">>
      [] c = "TestInstrumentOtel" -> <<"instrumentOtel">>
      [] c = "TestInstrumentLog" -> <<"instrumentLog">>
      [] OTHER -> <<>>

HasMiddleware(c, name) == \E k \in 1..Len(Chain(c)) : Chain(c)[k] = name

HasInstrument(c) ==
    \E n \in {"instrumentProm", "instrumentOtel", "instrumentLog"} : HasMiddleware(c, n)

Paths == {"/", "/health", "/panic", "/status", "/timeout", "/headersize", "/request",
          "/fibonacci"}

\* The servers whose router is an http.ServeMux, where the "/" pattern
\* takes every path no other pattern takes; chi matches "/" exactly.
MuxConfigs == {"NewMux"} \cup LegacyConfigs

\* The routing table of a server.
Route(c, path) ==
    IF c \in LegacyConfigs
    THEN CASE path = "/health" -> "healthMain"
           [] path = "/status" -> IF c = "main0" THEN "statusMain0" ELSE "statusMain1"
           [] path = "/timeout" -> IF c = "main0" THEN "timeoutMain0" ELSE "timeoutMain1"
           [] path = "/headersize" /\ c = "main1" -> "headersizeMain1"
           [] OTHER -> "echoMain"
    ELSE CASE path = "/" -> "echoHandler"
           [] path = "/health" -> "healthHandler"
           [] path = "/panic" -> "panicHandler"
           [] path = "/status" -> "statusHandler"
           [] path = "/timeout" -> "timeoutHandler"
           [] path = "/headersize" -> "headerSizeHandler"
           [] path = "/request" /\ c # "run" -> "requestHandler"
           [] path = "/fibonacci" /\ c # "run" -> "fibonacciHandler"
           [] OTHER -> IF c \in MuxConfigs THEN "echoHandler" ELSE "notFound"

\* The paths a server registers a handler for.
Registered(c) ==
    CASE c = "main0" -> {"/", "/health", "/status", "/timeout"}
      [] c = "main1" -> {"/", "/health", "/status", "/timeout", "/headersize"}
      [] c = "run" -> {"/", "/health", "/panic", "/status", "/timeout", "/headersize"}
      [] OTHER -> Paths

\* The handler a request is dispatched to, run on writer w.
Call(r, w) ==
    CASE r.target = "echoHandler" -> echoHandler(r, w)
      [] r.target = "healthHandler" -> healthHandler(r, w)
      [] r.target = "panicHandler" -> panicHandler(r, w)
      [] r.target = "statusHandler" -> statusHandler(r, w)
      [] r.target = "timeoutHandler" -> timeoutHandler(r, w)
      [] r.target = "headerSizeHandler" -> headerSizeHandler(r, w)
      [] r.target = "requestHandler" -> requestHandler(r, w)
      [] r.target = "fibonacciHandler" -> fibonacciHandler(r, w)
      [] r.target = "notFound" -> notFound(r, w)
      [] r.target = "headersizeMain1" -> headersizeMain1(r, w)
      [] r.target = "echoMain" -> echoMain(r, w)
      [] r.target = "healthMain" -> healthMain(r, w)
      [] r.target = "statusMain0" -> statusMain0(r, w)
      [] r.target = "statusMain1" -> statusMain1(r, w)
      [] r.target = "timeoutMain0" -> timeoutMain0(r, w)
      [] r.target = "timeoutMain1" -> timeoutMain1(r, w)
      [] r.target = "testOK" -> testOK(r, w)
      [] r.target = "test500" -> test500(r, w)
      [] r.target = "testPanic" -> testPanic(r, w)
      [] r.target = "testWritePanic" -> testWritePanic(r, w)

\* The seconds the handler of r spends in time.Sleep.
SleepOf(r) ==
    CASE r.target = "timeoutHandler" -> timeoutSleep(r)
      [] r.target = "timeoutMain1" -> timeoutSleepMain1(r)
      [] r.target = "timeoutMain0" -> timeoutSleepMain0(r)
      [] OTHER -> 0

(***************************************************************************)
(* What the clients send.                                                  *)
(***************************************************************************)

InvalidToken == <<"i", "n", "v", "a", "l", "i", "d">>

\* The status codes the clients ask /status for: the ends of 100..599, the
\* codes of the tests, and 99, just below what WriteHeader takes.
StatusCodes == {99, 100, 200, 300, 500, 599}

\* The indices the random source may hand out (-1: the source failed; the
\* math/rand of main() cannot fail).
RandomIndices(c) ==
    IF c \in LegacyConfigs THEN 0..(Len(RandomStatusCodes) - 1)
    ELSE -1..(Len(RandomStatusCodes) - 1)

\* A request that is no relay request: a body that decodes, no target.
NoFar == [json |-> TRUE, req |-> TRUE, hops |-> <<>>]

Input(path, target, has, val, rnd, pval) ==
    [path |-> path, target |-> target, has |-> has, val |-> val, rnd |-> rnd,
     pval |-> pval, far |-> NoFar]

PlainInputs(c) ==
    {Input(p, Route(c, p), FALSE, <<>>, 0, NoPanic) :
        p \in {"/", "/health", "/panic", "/nosuchpath"}}

\* The sizes the clients ask /headersize for: 0..MaxSize, 10 as in the test,
\* and -1.
HeaderSizes == (-1..MaxSize) \cup {10}

SizeText(n) == IF n < 0 THEN <<"-">> \o Itoa(0 - n) ELSE Itoa(n)

HeaderSizeInputs(c) ==
    IF c = "main0" THEN {}
    ELSE {Input("/headersize", Route(c, "/headersize"), FALSE, <<>>, 0, NoPanic)}
         \cup {Input("/headersize", Route(c, "/headersize"), TRUE, v, 0, NoPanic) :
                v \in {<<>>, InvalidToken} \cup {SizeText(n) : n \in HeaderSizes}}

\* The arguments the clients ask /fibonacci for.
FibonacciArgs == {0, 1, 2, 3, 10, MaxFib}

FibonacciInputs(c) ==
    IF Route(c, "/fibonacci") # "fibonacciHandler" THEN {}
    ELSE {Input("/fibonacci", "fibonacciHandler", FALSE, <<>>, 0, NoPanic)}
         \cup {Input("/fibonacci", "fibonacciHandler", TRUE, v, 0, NoPanic) :
                v \in {InvalidToken, <<"-", "1">>} \cup {Itoa(n) : n \in FibonacciArgs}}

\* The status codes the relay's targets answer with.
TargetCodes == {200, 404, 500}

\* What the body of a /request names: a body that is no JSON, a request
\* that cannot be built, a target that cannot be reached, targets that
\* answer (one whose body breaks off), and targets that redirect, with and
\* without a Location.
RelayTargets ==
    {[json |-> FALSE, req |-> TRUE, hops |-> <<TransportError("unreachable")>>],
     [json |-> TRUE, req |-> FALSE, hops |-> <<TransportError("unreachable")>>],
     [json |-> TRUE, req |-> TRUE,
      hops |-> <<TransportError("dial tcp: connect: connection refused")>>],
     [json |-> TRUE, req |-> TRUE, hops |-> <<Response(200, "test data", FALSE, FALSE)>>],
     [json |-> TRUE, req |-> TRUE, hops |-> <<Response(302, "", FALSE, TRUE)>>],
     [json |-> TRUE, req |-> TRUE,
      hops |-> <<Response(302, "Found", TRUE, TRUE), Response(200, "moved", FALSE, TRUE)>>]}
    \cup {[json |-> TRUE, req |-> TRUE, hops |-> <<Response(s, "test data", FALSE, TRUE)>>] :
            s \in TargetCodes}

RequestInputs(c) ==
    IF Route(c, "/request") # "requestHandler" THEN {}
    ELSE {[Input("/request", "requestHandler", FALSE, <<>>, 0, NoPanic) EXCEPT !.far = t] :
            t \in RelayTargets}

StatusInputs(c) ==
    {Input("/status", Route(c, "/status"), TRUE, RandomToken, i, NoPanic) :
        i \in RandomIndices(c)}
    \cup {Input("/status", Route(c, "/status"), q[1], q[2], i, NoPanic) :
        q \in {<<FALSE, <<>>>>, <<TRUE, <<>>>>},
        i \in {i \in RandomIndices(c) : i <= 0 \/ i = Len(RandomStatusCodes) - 1}}
    \cup {Input("/status", Route(c, "/status"), TRUE, v, 0, NoPanic) :
        v \in {InvalidToken} \cup {Itoa(n) : n \in StatusCodes}}

TimeoutInputs(c) ==
    {Input("/timeout", Route(c, "/timeout"), FALSE, <<>>, 0, NoPanic)}
    \cup {Input("/timeout", Route(c, "/timeout"), TRUE, v, 0, NoPanic) :
        v \in {<<>>, InvalidToken, <<"1">>} \cup {Itoa(n) \o <<"s">> : n \in 0..MaxSleep}}

\* The values the handlers under test panic with.
PanicValues == {PanicString("test"), ErrAbortHandler}

TestInputs(c) ==
    {Input("/", "testPanic", FALSE, <<>>, 0, v) : v \in PanicValues}
    \cup (IF c \in {"TestRecoverer", "TestInstrumentOtel"}
          THEN {Input("/", "testWritePanic", FALSE, <<>>, 0, v) : v \in PanicValues}
          ELSE {})
    \cup (IF c = "TestRecoverer" THEN {}
          ELSE {Input("/", t, FALSE, <<>>, 0, NoPanic) : t \in {"testOK", "test500"}})

InputsOf(c) ==
    IF c \in TestConfigs THEN TestInputs(c)
    ELSE PlainInputs(c) \cup StatusInputs(c) \cup TimeoutInputs(c)
         \cup HeaderSizeInputs(c) \cup FibonacciInputs(c) \cup RequestInputs(c)

\* The requests of every configuration.
Inputs == [c \in ServerConfigs \cup TestConfigs \cup LegacyConfigs |-> InputsOf(c)]

(***************************************************************************)
(* State.                                                                  *)
(*   cfg     the configuration that serves                                 *)
(*   reqs    the requests in flight: handlers in time.Sleep or waiting in  *)
(*           httpClient.Do, oldest first                                   *)
(*   last    the response that was completed last                          *)
(*   prefix  the id prefix of package requestid (gRPC)                     *)
(*   reqid   the counter of package requestid (gRPC)                       *)
(*   calls   the gRPC calls, in the order of their arrival                 *)
(*   reply   what the gRPC handler that ran last returned                  *)
(*   ws      the websocket session                                         *)
(***************************************************************************)
VARIABLES cfg, reqs, last, prefix, reqid, calls, reply, ws

vars == <<cfg, reqs, last, prefix, reqid, calls, reply, ws>>

\* The state of the gRPC server: the prefix and the counter of package
\* requestid, and the calls.
grpcVars == <<prefix, reqid, calls>>

\* The state of the HTTP server.
httpVars == <<cfg, reqs, last>>

\* No gRPC handler has returned yet.
NoReply == [method |-> "", in |-> <<>>, code |-> 0, msg |-> "", panic |-> NoPanic]

\* No websocket session.
NoSession == [st |-> "none"]

\* No gRPC server runs beside the HTTP server.
NoGrpc == prefix = "" /\ reqid = 0 /\ calls = <<>> /\ reply = NoReply

IdleInput == Input("", "", FALSE, <<>>, 0, NoPanic)

\* A request whose handler has entered time.Sleep for d seconds, having
\* written w.  gone: the caller has gone away and the context of the request
\* is cancelled; late: the seconds the request has stayed in flight since.
Sleeping(in, d, w) ==
    [st |-> "sleeping", in |-> in, rem |-> d, slept |-> 0, w |-> w,
     gone |-> FALSE, late |-> 0]

\* A /request whose handler waits in httpClient.Do for the target.
Calling(in, w) ==
    [st |-> "calling", in |-> in, rem |-> 0, slept |-> 0, w |-> w,
     gone |-> FALSE, late |-> 0]

\* The requests in flight.
Reqs == 1..Len(reqs)

\* s without its i-th element.
Remove(s, i) == SubSeq(s, 1, i - 1) \o SubSeq(s, i + 1, Len(s))

\* No response yet.
NoResponse ==
    [st |-> "none", in |-> IdleInput, slept |-> 0, w |-> NewWriter, out |-> "none",
     code |-> 0, escaped |-> NoPanic, logs |-> <<>>, counts |-> <<>>, recovered |-> 0]

\* ServeHTTP of the configuration's outermost handler, the handler of the
\* request run on writer w.  A panic that leaves the chain of a server ends
\* in net/http's conn.serve, which logs it and closes the connection with no
\* response; in a test it reaches the test.  A handler that returns without
\* writing is answered 200.
ServeHTTP(c, in, w, slept) ==
    LET h == Call(in, w)
        x == ApplyChain(Chain(c), [w |-> h.w, panic |-> h.panic, logs |-> h.logs,
                                   counts |-> <<>>, recovered |-> 0])
    IN  [st |-> "done", in |-> in, slept |-> slept, w |-> x.w,
         out |-> IF x.panic = NoPanic THEN "answered" ELSE "aborted",
         code |-> IF x.panic = NoPanic THEN MetricsCode(x.w) ELSE 0,
         escaped |-> x.panic, logs |-> x.logs, counts |-> x.counts,
         recovered |-> x.recovered]

Init ==
    /\ cfg \in ServerConfigs \cup TestConfigs
    /\ reqs = <<>>
    /\ last = NoResponse
    /\ NoGrpc
    /\ ws = NoSession

InitLegacy ==
    /\ cfg \in LegacyConfigs
    /\ reqs = <<>>
    /\ last = NoResponse
    /\ NoGrpc
    /\ ws = NoSession

\* The responses to the requests whose handlers do not sleep, by
\* configuration.
Responses ==
    [c \in DOMAIN Inputs |->
        {ServeHTTP(c, in, NewWriter, 0) : in \in {x \in Inputs[c] : SleepOf(x) = 0}}]

\* A request whose handler does not sleep: served in one step, beside the
\* requests that sleep.
Serve ==
    /\ last' \in Responses[cfg]
    /\ UNCHANGED <<cfg, reqs>>
    /\ UNCHANGED <<grpcVars, reply, ws>>

\* /timeout with a positive duration: the handler enters time.Sleep.
StartSleep ==
    /\ Len(reqs) < MaxReqs
    /\ \E in \in Inputs[cfg] :
        /\ SleepOf(in) > 0
        /\ reqs' = Append(reqs, Sleeping(in, SleepOf(in),
                                         timeoutBeforeSleep(in, NewWriter)))
    /\ UNCHANGED <<cfg, last>>
    /\ UNCHANGED <<grpcVars, reply, ws>>

\* The outbound call of a request whose context is cancelled returns the
\* context's error before any time passes.
CallStopped(r) == r.st = "calling" /\ r.gone

\* One second passes for every sleeping handler; time.Sleep takes no
\* context, so it goes on when the caller is gone.  late is counted up to
\* MaxSleep.
Tick ==
    /\ \E i \in Reqs : reqs[i].rem > 0
    /\ \A i \in Reqs : ~CallStopped(reqs[i])
    /\ reqs' = [i \in Reqs |->
                 [reqs[i] EXCEPT
                    !.rem = IF @ > 0 THEN @ - 1 ELSE @,
                    !.slept = IF reqs[i].rem > 0 THEN @ + 1 ELSE @,
                    !.late = IF reqs[i].gone /\ @ < MaxSleep THEN @ + 1 ELSE @]]
    /\ UNCHANGED <<cfg, last>>
    /\ UNCHANGED <<grpcVars, reply, ws>>

\* A faulty sleep that may return before the duration is over; C10
\* rejects it.
SleepOverAtOnce(r) == r.st = "sleeping"

\* time.Sleep returns once the duration is over.
SleepOver(r) == r.st = "sleeping" /\ r.rem = 0

\* The handler wakes, writes its response and returns through the chain.
Wake(i) ==
    /\ i \in Reqs
    /\ SleepOver(reqs[i])
    /\ last' = ServeHTTP(cfg, reqs[i].in, reqs[i].w, reqs[i].slept)
    /\ reqs' = Remove(reqs, i)
    /\ UNCHANGED cfg
    /\ UNCHANGED <<grpcVars, reply, ws>>

\* /request with a body that decodes and a request that can be built: the
\* handler enters httpClient.Do.
StartCall ==
    /\ Len(reqs) < MaxReqs
    /\ \E in \in Inputs[cfg] :
        /\ in.target = "requestHandler" /\ in.far.json /\ in.far.req
        /\ reqs' = Append(reqs, Calling(in, NewWriter))
    /\ UNCHANGED <<cfg, last>>
    /\ UNCHANGED <<grpcVars, reply, ws>>

\* The target answers (or the transport fails) and the relay responds.
Answer(i) ==
    /\ i \in Reqs
    /\ reqs[i].st = "calling" /\ ~reqs[i].gone
    /\ last' = ServeHTTP(cfg, reqs[i].in, reqs[i].w, 0)
    /\ reqs' = Remove(reqs, i)
    /\ UNCHANGED cfg
    /\ UNCHANGED <<grpcVars, reply, ws>>

\* The caller of a request in flight goes away: net/http cancels the
\* context of the request.
Cancel(i) ==
    /\ i \in Reqs
    /\ ~reqs[i].gone
    /\ reqs' = [reqs EXCEPT ![i].gone = TRUE]
    /\ UNCHANGED <<cfg, last>>
    /\ UNCHANGED <<grpcVars, reply, ws>>

\* httpClient.Do returns the error of the cancelled context and the relay
\* goes through its error branch.
Abort(i) ==
    /\ i \in Reqs
    /\ CallStopped(reqs[i])
    /\ last' = ServeHTTP(cfg, [reqs[i].in EXCEPT !.far.hops = <<ContextCanceled>>],
                         reqs[i].w, 0)
    /\ reqs' = Remove(reqs, i)
    /\ UNCHANGED cfg
    /\ UNCHANGED <<grpcVars, reply, ws>>

Next ==
    \/ Serve
    \/ StartSleep
    \/ Tick
    \/ \E i \in 1..MaxReqs : Wake(i)

\* The servers of cmd/echoserver and pkg/httpserver and the middleware tests.
Spec == Init /\ [][Next]_vars

\* The servers of the first two revisions of main().
SpecLegacy == InitLegacy /\ [][Next]_vars

\* The servers that route both /timeout and /request.
InitCancel ==
    /\ cfg \in {"NewChi", "NewMux"}
    /\ reqs = <<>>
    /\ last = NoResponse
    /\ NoGrpc
    /\ ws = NoSession

\* The requests that stay in flight, and their callers going away.
NextCancel ==
    \/ StartSleep
    \/ StartCall
    \/ Tick
    \/ \E i \in 1..MaxReqs : Wake(i)
    \/ \E i \in 1..MaxReqs : Answer(i)
    \/ \E i \in 1..MaxReqs : Cancel(i)
    \/ \E i \in 1..MaxReqs : Abort(i)

SpecCancel == InitCancel /\ [][NextCancel]_vars

(***************************************************************************)
(* The gRPC server: package requestid and the Request relay.               *)
(***************************************************************************)

RequestIDHeader == "x-request-id"

\* The prefixes init() can build: the host name, or "localhost", a slash
\* and ten characters of random base64.
Prefixes == {"localhost/AbCdEfGhIj", "echoserver-0/x7Kp2mQ9zR"}

\* fmt.Sprintf("%s-%06d", prefix, myid).
GeneratedID(p, myid) ==
    p \o "-" \o Repeat("0", 6 - Len(IntText(myid))) \o IntText(myid)

\* A faulty add that loses the increment; C19 rejects it.
AddUint64Lost(v, delta) == v

\* atomic.AddUint64: the new value, in one step.
AddUint64(v, delta) == v + delta

\* A faulty choice that takes the last x-request-id value; C18 rejects it.
IncomingRequestIDLast(md) == IF Len(md) > 0 THEN md[Len(md)] ELSE ""

\* The request id an interceptor takes from the incoming metadata: the
\* first x-request-id value, "" when there is none.
IncomingRequestID(md) == IF Len(md) > 0 THEN md[1] ELSE ""

\* The x-request-id values a caller sends as metadata.
Metadata == {<<>>, <<"", "second">>, <<"first", "second">>}

\* The headers map of a RequestRequest, as its entries.
HeaderMaps == {<<>>, <<[name |-> RequestIDHeader, value |-> "mapped"]>>}

\* A call that has reached the server.  md: its x-request-id metadata;
\* headers: the headers map of its message; requestID, myid: the locals of
\* the interceptor; ctx: the value under RequestIDKey; seen: what
\* requestid.Get has returned so far; out: the headers of the outbound call.
NewCall(kind, md, headers) ==
    [kind |-> kind, md |-> md, headers |-> headers, pc |-> "arrived",
     requestID |-> "", myid |-> 0, ctx |-> "", seen |-> {}, out |-> <<>>]

Calls == 1..Len(calls)

\* The interceptor from its first line to the choice of the request id.
Intercept(i) ==
    LET c == calls[i]
        requestID == IncomingRequestID(c.md)
        myid == AddUint64(reqid, 1)
    IN  /\ c.pc = "arrived"
        /\ IF requestID = ""
           THEN /\ reqid' = myid
                /\ calls' = [calls EXCEPT ![i].pc = "intercepted",
                                           ![i].myid = myid,
                                           ![i].requestID = GeneratedID(prefix, myid)]
           ELSE /\ reqid' = reqid
                /\ calls' = [calls EXCEPT ![i].pc = "intercepted",
                                           ![i].requestID = requestID]
        /\ UNCHANGED <<prefix, reply>>
        /\ UNCHANGED <<httpVars, reply, ws>>

\* A unary or a streaming call arrives.
Arrive ==
    /\ Len(calls) < MaxCalls
    /\ \E kind \in {"unary", "stream"}, md \in Metadata, headers \in HeaderMaps :
        /\ kind = "stream" => headers = <<>>
        /\ calls' = Append(calls, NewCall(kind, md, headers))
    /\ UNCHANGED <<prefix, reqid, reply>>
    /\ UNCHANGED <<httpVars, reply, ws>>

UnaryServerInterceptor(i) ==
    /\ i \in Calls
    /\ calls[i].kind = "unary"
    /\ Intercept(i)

StreamServerInterceptor(i) ==
    /\ i \in Calls
    /\ calls[i].kind = "stream"
    /\ Intercept(i)

\* context.WithValue(ctx, RequestIDKey, requestID) and the call of the
\* handler (for a stream, with the wrapped stream).
CallHandler(i) ==
    /\ i \in Calls
    /\ calls[i].pc = "intercepted"
    /\ calls' = [calls EXCEPT ![i].pc = "handling", ![i].ctx = calls[i].requestID]
    /\ UNCHANGED <<prefix, reqid, reply>>
    /\ UNCHANGED <<httpVars, reply, ws>>

\* requestid.Get(ctx) in a later step of the call.
Get(i) ==
    /\ i \in Calls
    /\ calls[i].pc \in {"handling", "done"}
    /\ calls[i].ctx \notin calls[i].seen
    /\ calls' = [calls EXCEPT ![i].seen = @ \cup {calls[i].ctx}]
    /\ UNCHANGED <<prefix, reqid, reply>>
    /\ UNCHANGED <<httpVars, reply, ws>>

\* The headers Request hands to grpcurl.InvokeRPC: the entries of the
\* headers map, then the request id of the context, then the first
\* x-request-id value of the incoming metadata.
RequestHeaders(c) ==
    c.headers
    \o (IF c.ctx # "" THEN <<[name |-> RequestIDHeader, value |-> c.ctx]>> ELSE <<>>)
    \o (IF Len(c.md) > 0 THEN <<[name |-> RequestIDHeader, value |-> c.md[1]]>> ELSE <<>>)

\* The handler of the unary call Request makes its outbound call.
Request(i) ==
    /\ i \in Calls
    /\ calls[i].kind = "unary"
    /\ calls[i].pc = "handling"
    /\ calls' = [calls EXCEPT ![i].pc = "done", ![i].out = RequestHeaders(calls[i])]
    /\ UNCHANGED <<prefix, reqid, reply>>
    /\ UNCHANGED <<httpVars, reply, ws>>

InitGrpc ==
    /\ cfg = "grpcserver"
    /\ reqs = <<>>
    /\ last = NoResponse
    /\ prefix \in Prefixes
    /\ reqid = 0
    /\ calls = <<>>
    /\ reply = NoReply
    /\ ws = NoSession

NextGrpc ==
    \/ Arrive
    \/ \E i \in 1..MaxCalls : UnaryServerInterceptor(i)
    \/ \E i \in 1..MaxCalls : StreamServerInterceptor(i)
    \/ \E i \in 1..MaxCalls : CallHandler(i)
    \/ \E i \in 1..MaxCalls : Get(i)
    \/ \E i \in 1..MaxCalls : Request(i)

\* The server of pkg/grpcserver, its calls handled concurrently.
SpecGrpc == InitGrpc /\ [][NextGrpc]_vars

(***************************************************************************)
(* The gRPC handlers Status and Request.  Codes are the numbers of         *)
(* google.golang.org/grpc/codes.                                           *)
(***************************************************************************)

\* Code.String() by code, OK = 0 first.
CodeString ==
    <<"OK", "Canceled", "Unknown", "InvalidArgument", "DeadlineExceeded", "NotFound",
      "AlreadyExists", "PermissionDenied", "ResourceExhausted", "FailedPrecondition",
      "Aborted", "OutOfRange", "Unimplemented", "Internal", "Unavailable", "DataLoss",
      "Unauthenticated">>

\* The code with the given Code.String().
Code(name) == (CHOOSE k \in 1..Len(CodeString) : CodeString[k] = name) - 1

\* grpcstatus.Error(code, msg) as the handler's return; nil for OK.
StatusError(method, in, code, msg) ==
    [method |-> method, in |-> in, code |-> code,
     msg |-> IF code = Code("OK") THEN "" ELSE msg, panic |-> NoPanic]

\* randomStatusCodes of Status.
GrpcRandomStatusCodes ==
    <<Code("OK"), Code("OK"), Code("OK"), Code("OK"), Code("OK"),
      Code("InvalidArgument"), Code("NotFound"), Code("Internal"), Code("Unavailable")>>

\* A faulty map that takes CANCELLED for Unknown; C22 rejects it.
statusCodesMapSwapped ==
    [n \in {"OK", "CANCELLED"} |-> IF n = "OK" THEN Code("OK") ELSE Code("Unknown")]

\* statusCodesMap of Status.
statusCodesMap ==
    [n \in {"OK", "CANCELLED", "UNKNOWN", "INVALID_ARGUMENT", "DEADLINE_EXCEEDED",
             "NOT_FOUND", "ALREADY_EXISTS", "PERMISSION_DENIED", "RESOURCE_EXHAUSTED",
             "FAILED_PRECONDITION", "ABORTED", "OUT_OF_RANGE", "UNIMPLEMENTED",
             "INTERNAL", "UNAVAILABLE", "DATA_LOSS", "UNAUTHENTICATED"} |->
        CASE n = "OK" -> Code("OK")
          [] n = "CANCELLED" -> Code("Canceled")
          [] n = "UNKNOWN" -> Code("Unknown")
          [] n = "INVALID_ARGUMENT" -> Code("InvalidArgument")
          [] n = "DEADLINE_EXCEEDED" -> Code("DeadlineExceeded")
          [] n = "NOT_FOUND" -> Code("NotFound")
          [] n = "ALREADY_EXISTS" -> Code("AlreadyExists")
          [] n = "PERMISSION_DENIED" -> Code("PermissionDenied")
          [] n = "RESOURCE_EXHAUSTED" -> Code("ResourceExhausted")
          [] n = "FAILED_PRECONDITION" -> Code("FailedPrecondition")
          [] n = "ABORTED" -> Code("Aborted")
          [] n = "OUT_OF_RANGE" -> Code("OutOfRange")
          [] n = "UNIMPLEMENTED" -> Code("Unimplemented")
          [] n = "INTERNAL" -> Code("Internal")
          [] n = "UNAVAILABLE" -> Code("Unavailable")
          [] n = "DATA_LOSS" -> Code("DataLoss")
          [] n = "UNAUTHENTICATED" -> Code("Unauthenticated")]

\* Status: r.status is the status field, r.rnd the index rand.Int returns
\* (-1: rand.Int fails).
Status(r) ==
    IF r.status = "" \/ r.status = "random"
    THEN IF r.rnd < 0
         THEN StatusError("Status", r, Code("Internal"), "rand: read failed")
         ELSE LET status == GrpcRandomStatusCodes[r.rnd + 1]
              IN  StatusError("Status", r, status, CodeString[status + 1])
    ELSE IF r.status \in DOMAIN statusCodesMap
    THEN LET status == statusCodesMap[r.status]
         IN  StatusError("Status", r, status, CodeString[status + 1])
    ELSE StatusError("Status", r, Code("Internal"), "Unknown status parameter")

\* What a Status call can ask for.
StatusRequests ==
    {[status |-> n, rnd |-> 0] :
        n \in DOMAIN statusCodesMap \cup {"ok", "Canceled", "CANCELED", "17"}}
    \cup {[status |-> n, rnd |-> k] :
            n \in {"", "random"}, k \in -1..(Len(GrpcRandomStatusCodes) - 1)}

\* The targets of a Request call.  conn: grpc.NewClient returns a
\* connection for the uri; parser: RequestParserAndFormatter succeeds;
\* invoke: what grpcurl.InvokeRPC returns ("nil", a status error or a plain
\* error); code, msg: the status of the error, or the one the target
\* answered with.
GrpcTarget(conn, parser, invoke, code, msg) ==
    [conn |-> conn, parser |-> parser, invoke |-> invoke, code |-> code, msg |-> msg]

GrpcTargets ==
    {GrpcTarget(TRUE, TRUE, "nil", Code("OK"), ""),
     GrpcTarget(TRUE, TRUE, "nil", Code("NotFound"), "no such thing"),
     GrpcTarget(FALSE, TRUE, "status", Code("Unavailable"), "invalid target address"),
     GrpcTarget(TRUE, FALSE, "nil", Code("OK"), "unknown format"),
     GrpcTarget(TRUE, TRUE, "status", Code("Unavailable"), "connection refused"),
     GrpcTarget(TRUE, TRUE, "plain", Code("Unknown"),
                "target server does not expose service"),
     GrpcTarget(TRUE, TRUE, "plain", Code("Unknown"), "error getting request data")}

\* Request on the call c (ctx, md, headers) with the target r.  The error
\* of grpc.NewClient is dropped and the deferred conn.Close() runs on every
\* return: without a connection it dereferences nil.
RequestReply(c, r) ==
    LET in == [c |-> c, target |-> r, headers |-> RequestHeaders(c)]
    IN  IF ~r.conn
        THEN [method |-> "Request", in |-> in, code |-> 0, msg |-> "",
              panic |-> [kind |-> "error",
                         text |-> "runtime error: invalid memory address or nil pointer dereference"]]
        ELSE IF ~r.parser THEN StatusError("Request", in, Code("Internal"), r.msg)
        ELSE IF r.invoke = "plain" THEN StatusError("Request", in, Code("Internal"), r.msg)
        ELSE StatusError("Request", in, r.code, r.msg)

\* The process runs: no handler has panicked (grpc-go recovers nothing).
Up == reply.panic = NoPanic

StatusRpc ==
    /\ Up
    /\ \E r \in StatusRequests : reply' = Status(r)
    /\ UNCHANGED <<httpVars, prefix, reqid, calls, ws>>

RequestRpc ==
    /\ Up
    /\ \E md \in Metadata, headers \in HeaderMaps, r \in GrpcTargets :
        LET requestID == IncomingRequestID(md)
            ctx == IF requestID = "" THEN GeneratedID(prefix, 1) ELSE requestID
        IN  reply' = RequestReply([md |-> md, headers |-> headers, ctx |-> ctx], r)
    /\ UNCHANGED <<httpVars, prefix, reqid, calls, ws>>

NextRpc == StatusRpc \/ RequestRpc

\* The handlers of the gRPC server, one call after the other.
SpecRpc == InitGrpc /\ [][NextRpc]_vars

(***************************************************************************)
(* websocketHandler: one session after the upgrade.  Two goroutines work   *)
(* on the connection: the read loop (ReadMessage, then WriteMessage of the *)
(* echo) and the heartbeat loop (a ping at every tick of the ticker).      *)
(* What the handler does takes no time; time passes, in steps of           *)
(* TimeStep seconds, when both loops wait.                                 *)
(*   st      "open", "closed" (the handler has returned: c.Close() and     *)
(*           ticker.Stop() have run) or "crashed" (the process panicked)   *)
(*   rl, hb  where the read loop and the heartbeat loop are                *)
(*   next    seconds to the next tick;  tickc: a tick waits in ticker.C    *)
(*   dl      seconds to the read deadline                                  *)
(*   inq     the frames of the peer the handler has not read yet           *)
(*   got     the data frames read;  out: the echo frames written           *)
(*   cur     the frame the read loop is writing back                       *)
(*   owed    the pings the peer has not answered                           *)
(*   werr    the write error of the connection, which stays                *)
(***************************************************************************)

\* The period of the ticker and the read deadline, in seconds.
PingPeriod == 25
ReadTimeout == 30

\* The step of the clock: the time between a ping and the deadline that
\* was set with the ping before.
TimeStep == ReadTimeout - PingPeriod

\* The data frames a peer sends.
Frames == {[t |-> "text", p |-> "test"], [t |-> "binary", p |-> "01"]}

\* The session when the handler has upgraded the connection, started the
\* ticker, set the first read deadline and started the heartbeat loop.
NewSession ==
    [st |-> "open", rl |-> "read", hb |-> "wait", next |-> PingPeriod, tickc |-> FALSE,
     dl |-> ReadTimeout, inq |-> <<>>, got |-> <<>>, out |-> <<>>, cur |-> <<>>,
     owed |-> 0, werr |-> FALSE, pingFailed |-> FALSE, late |-> FALSE, by |-> "",
     sent |-> 0, quiet |-> TRUE, pongs |-> 0]

\* The read loop breaks and the handler returns: the deferred ticker.Stop()
\* and c.Close() run.  Nothing tells the heartbeat loop.
CloseSession(s, by) ==
    [s EXCEPT !.st = "closed", !.rl = "done", !.by = by, !.werr = TRUE]

\* A faulty pong handler that leaves the read deadline; C28 rejects it.
pongHandlerIdle(s) == [s EXCEPT !.pongs = IF @ < 2 THEN @ + 1 ELSE @]

\* The pong handler: the read deadline is ReadTimeout from now.
pongHandler(s) == [s EXCEPT !.dl = ReadTimeout, !.pongs = IF @ < 2 THEN @ + 1 ELSE @]

\* A faulty deadline that never expires; C24 rejects it.
ExpiredNever(s) == FALSE

\* The read deadline has passed and nothing has arrived.
Expired(s) == s.dl = 0 /\ s.inq = <<>>

\* A faulty connection that forgets its write error; C27 rejects it.
WriteFailsOnce(s, ok) == ~ok

\* c.write: it fails when the network does, and from then on.
WriteFails(s, ok) == s.werr \/ ~ok

\* Both loops wait: the read loop in ReadMessage with nothing to read and
\* the deadline ahead, the heartbeat loop for a tick (or it has returned).
Quiescent(s) ==
    /\ s.st = "open" /\ s.rl = "read" /\ s.inq = <<>> /\ s.dl > 0
    /\ s.hb = "done" \/ (s.hb = "wait" /\ ~s.tickc)

\* TimeStep seconds pass; the ticker fires when its period is over (a tick
\* nobody has taken is not doubled).
Pass ==
    /\ Quiescent(ws)
    /\ ws' = [ws EXCEPT !.dl = @ - TimeStep,
                        !.next = IF @ = TimeStep THEN PingPeriod ELSE @ - TimeStep,
                        !.tickc = @ \/ ws.next = TimeStep]
    /\ UNCHANGED <<httpVars, grpcVars, reply>>

\* The heartbeat loop takes a tick and enters WriteMessage(PingMessage).
\* When the read loop is inside its WriteMessage, the two writes run on the
\* connection at once with no lock: gorilla's c.write panics ("concurrent
\* write to websocket connection") when it sees the other write, and when
\* it does not the frames may mix in the shared write buffer.
HbTick ==
    /\ ws.st # "crashed" /\ ws.hb = "wait" /\ ws.tickc
    /\ \E o \in IF ws.rl = "write" THEN {"fine", "mixed", "panic"} ELSE {"fine"} :
        ws' = [ws EXCEPT !.hb = "write", !.tickc = FALSE,
                         !.st = IF o = "panic" THEN "crashed" ELSE @,
                         !.cur = IF o = "mixed" THEN [@ EXCEPT !.p = "mixed"] ELSE @]
    /\ UNCHANGED <<httpVars, grpcVars, reply>>

\* The ping is written, or the write fails and the heartbeat loop returns.
HbWrite ==
    /\ ws.st # "crashed" /\ ws.hb = "write"
    /\ \E ok \in BOOLEAN :
        ws' = IF WriteFails(ws, ok)
              THEN [ws EXCEPT !.hb = "done", !.werr = TRUE, !.pingFailed = TRUE]
              ELSE [ws EXCEPT !.hb = "wait", !.owed = 1]
    /\ UNCHANGED <<httpVars, grpcVars, reply>>

\* ReadMessage takes the next frame: a pong runs the pong handler, a close
\* frame ends the read loop, a data frame is returned and the read loop
\* enters WriteMessage(mt, message), beside a ping write when one runs.
ReadFrame ==
    /\ ws.st = "open" /\ ws.rl = "read" /\ ws.inq # <<>>
    /\ LET f == Head(ws.inq)
           s == [ws EXCEPT !.inq = Tail(@)]
       IN  IF f.t = "pong" THEN ws' = pongHandler(s)
           ELSE IF f.t = "close" THEN ws' = CloseSession(s, "peer")
           ELSE \E o \in IF ws.hb = "write" THEN {"fine", "mixed", "panic"} ELSE {"fine"} :
                  ws' = [s EXCEPT !.rl = "write", !.got = Append(@, f),
                                  !.cur = IF o = "mixed" THEN [f EXCEPT !.p = "mixed"] ELSE f,
                                  !.late = ws.pingFailed,
                                  !.st = IF o = "panic" THEN "crashed" ELSE @]
    /\ UNCHANGED <<httpVars, grpcVars, reply>>

\* ReadMessage returns the timeout error: the read loop breaks.
ReadExpired ==
    /\ ws.st = "open" /\ ws.rl = "read"
    /\ Expired(ws)
    /\ ws' = CloseSession(ws, "deadline")
    /\ UNCHANGED <<httpVars, grpcVars, reply>>

\* The echo is written, or the write fails and the read loop breaks.
EchoWrite ==
    /\ ws.st = "open" /\ ws.rl = "write"
    /\ \E ok \in BOOLEAN :
        ws' = IF WriteFails(ws, ok)
              THEN CloseSession(ws, "write")
              ELSE [ws EXCEPT !.rl = "read", !.out = Append(@, ws.cur)]
    /\ UNCHANGED <<httpVars, grpcVars, reply>>

\* The peer sends a data frame.
PeerSend ==
    /\ ws.st = "open" /\ ws.sent < MaxFrames
    /\ \E f \in Frames :
        ws' = [ws EXCEPT !.inq = Append(@, f), !.sent = @ + 1, !.quiet = FALSE]
    /\ UNCHANGED <<httpVars, grpcVars, reply>>

\* The peer answers a ping with a pong.
PeerPong ==
    /\ ws.st = "open" /\ ws.owed > 0
    /\ ws' = [ws EXCEPT !.inq = Append(@, [t |-> "pong", p |-> ""]),
                        !.owed = 0, !.quiet = FALSE]
    /\ UNCHANGED <<httpVars, grpcVars, reply>>

\* The peer closes the session.
PeerClose ==
    /\ ws.st = "open" /\ \A k \in 1..Len(ws.inq) : ws.inq[k].t # "close"
    /\ ws' = [ws EXCEPT !.inq = Append(@, [t |-> "close", p |-> ""]), !.quiet = FALSE]
    /\ UNCHANGED <<httpVars, grpcVars, reply>>

InitWs ==
    /\ cfg = "NewChi"
    /\ reqs = <<>>
    /\ last = NoResponse
    /\ NoGrpc
    /\ ws = NewSession

\* What the handler does.
HandlerStep == HbTick \/ HbWrite \/ ReadFrame \/ ReadExpired \/ EchoWrite

NextWs ==
    \/ Pass
    \/ HbTick
    \/ HbWrite
    \/ ReadFrame
    \/ ReadExpired
    \/ EchoWrite
    \/ PeerSend
    \/ PeerPong
    \/ PeerClose

\* A websocket session with its peer.
SpecWs == InitWs /\ [][NextWs]_vars

\* The same when time goes on and both goroutines are scheduled.
FairWs == SpecWs /\ WF_vars(Pass) /\ WF_vars(HandlerStep)

TypeOK ==
    /\ cfg \in ServerConfigs \cup TestConfigs \cup LegacyConfigs
    /\ Len(reqs) <= MaxReqs
    /\ \A i \in Reqs :
        /\ reqs[i].st \in {"sleeping", "calling"}
        /\ reqs[i].gone \in BOOLEAN
        /\ reqs[i].late \in 0..MaxSleep
        /\ reqs[i].rem \in 0..MaxSleep
        /\ reqs[i].slept \in 0..MaxSleep
        /\ reqs[i].rem + reqs[i].slept = SleepOf(reqs[i].in)
    /\ last.st \in {"none", "done"}
    /\ last.out \in {"none", "answered", "aborted"}
    /\ last.code \in {0} \cup 100..999
    /\ last.slept \in 0..MaxSleep
    /\ last.st = "done" => (last.out = "answered" <=> last.escaped = NoPanic)

(***************************************************************************)
(* Properties.                                                             *)
(***************************************************************************)

Done == last.st = "done"

\* The value the handler of the last response panicked with.
Raised == Call(last.in, NewWriter).panic

\* The "Request completed." lines of the last response.
CompletedLines == {k \in 1..Len(last.logs) : last.logs[k].msg = "Request completed."}

\* A request sleeps beside the last response.
Beside == Len(reqs) > 0

\* C1: on a server, every /panic request is answered 500 (the connection is
\* not dropped), and every /health request is answered 200 "OK", whatever
\* number of /panic requests came before it and whatever requests are in
\* flight beside it.
C1_PanicAnswered500 ==
    (Done /\ cfg \in ServerConfigs) =>
        /\ last.in.path = "/panic" => (last.out = "answered" /\ last.code = 500)
        /\ last.in.path = "/health" =>
               (last.out = "answered" /\ last.code = 200 /\ last.w.body = "OK")

\* C2 as stated: under the recovery middleware every handler panic is turned
\* into exactly one 500 response whose body renders the panic value
\* ("test" gives the quoted "test" and a newline), and the panic does not
\* reach the caller of the middleware.
C2_EveryPanicBecomes500 ==
    (Done /\ HasMiddleware(cfg, "recoverer") /\ Raised # NoPanic) =>
        /\ last.out = "answered"
        /\ last.recovered = 1
        /\ last.code = 500
        /\ last.w.body = GoSyntax(Raised) \o "\n"
        /\ Raised = PanicString("test") => last.w.body = "\"test\"\n"

\* What the handler of the last response had written when it returned or
\* panicked.
Written == Call(last.in, NewWriter).w

\* C2 amended: the same for every panic value but http.ErrAbortHandler,
\* when the handler had committed nothing before it panicked; a panic with
\* http.ErrAbortHandler is ended by the middleware as well and does not
\* reach its caller, but nothing is written for it: no 500 status and no
\* body.
C2_PanicBecomes500UnlessAbort ==
    (Done /\ HasMiddleware(cfg, "recoverer") /\ Raised # NoPanic) =>
        /\ last.out = "answered"
        /\ (Raised # ErrAbortHandler /\ Written.code = 0) =>
            /\ last.recovered = 1
            /\ last.code = 500
            /\ last.w.body = GoSyntax(Raised) \o "\n"
            /\ Raised = PanicString("test") => last.w.body = "\"test\"\n"
        /\ Raised = ErrAbortHandler =>
            /\ last.recovered = 0
            /\ last.w = Written

\* A handler under the recovery middleware panicked with "test" and the
\* client has the 500 response.
C2_Witness ==
    /\ Done /\ HasMiddleware(cfg, "recoverer")
    /\ Raised = PanicString("test")
    /\ last.code = 500

\* C3: every request that passes through the instrumentation middleware
\* has exactly one "Request completed." line and one increment of the
\* request counter, both with the status the client was sent.
C3_OneLineOneIncrement ==
    (Done /\ HasInstrument(cfg)) =>
        /\ Cardinality(CompletedLines) = 1
        /\ Len(last.counts) = 1
        /\ \A k \in CompletedLines : last.logs[k].status = last.code
        /\ \A k \in 1..Len(last.counts) : last.counts[k] = last.code

\* C4: a "Request completed." line is at error severity exactly when its
\* status is 500 or more, at info severity otherwise.
C4_SeverityFollowsStatus ==
    Done =>
        \A k \in CompletedLines :
            /\ last.logs[k].level \in {"ERROR", "INFO"}
            /\ last.logs[k].level = "ERROR" <=> last.logs[k].status >= 500

\* C5: with the instrumentation middleware and no recovery middleware
\* outside it, a panic of the handler does not leave the chain.
C5_InstrumentEndsPanic ==
    (Done /\ HasInstrument(cfg) /\ ~HasMiddleware(cfg, "recoverer") /\ Raised # NoPanic) =>
        (last.out = "answered" /\ last.escaped = NoPanic)

TableEntries(c) ==
    Cardinality({k \in 1..Len(RandomStatusCodes) : RandomStatusCodes[k] = c})

\* C7: /status without a status, with an empty one or with "random" is
\* answered with a code of {200, 400, 500, 502, 503}: the entry of the
\* 9-entry table (five times 200, once each of the others) that the random
\* index selects.
C7_RandomStatusFromTable ==
    /\ Len(RandomStatusCodes) = 9
    /\ TableEntries(200) = 5
    /\ \A c \in {400, 500, 502, 503} : TableEntries(c) = 1
    /\ (Done /\ last.in.path = "/status"
             /\ (~last.in.has \/ last.in.val \in {<<>>, RandomToken})) =>
            /\ last.out = "answered"
            /\ last.code \in {200, 400, 500, 502, 503}
            /\ last.in.rnd >= 0 => last.code = RandomStatusCodes[last.in.rnd + 1]

\* The last entry of the table was drawn for a request with status=random.
C7_Witness ==
    /\ Done /\ last.in.path = "/status"
    /\ last.in.val = RandomToken /\ last.in.rnd = 8
    /\ last.code = 503

\* C8: /status with a status that is not empty, not "random" and not an
\* integer is answered 400 with the parse error as body.
C8_BadStatusAnswered400 ==
    (Done /\ last.in.path = "/status" /\ last.in.has
          /\ last.in.val \notin {<<>>, RandomToken}
          /\ ~Atoi(last.in.val).ok) =>
        /\ last.out = "answered"
        /\ last.code = 400
        /\ last.w.body = Atoi(last.in.val).err \o "\n"

\* Whether the request has no timeout the handler can sleep for.
BadTimeout(in) ==
    in.path = "/timeout" /\ (~in.has \/ ~ParseDuration(in.val).ok)

\* C9: /timeout without a timeout, with an empty one or with one that is
\* no duration is answered 400 without sleeping.
C9_BadTimeoutAnswered400 ==
    /\ \A i \in Reqs : ~BadTimeout(reqs[i].in)
    /\ (Done /\ BadTimeout(last.in)) =>
           (last.out = "answered" /\ last.code = 400 /\ last.slept = 0)

\* C10: while the handler of /timeout sleeps, no status and no byte of the
\* response is written; it sleeps the whole duration and then answers 200
\* "OK".
C10_AnswerAfterSleep ==
    /\ \A i \in Reqs : reqs[i].w = NewWriter
    /\ \A n \in 0..MaxSleep :
        (Done /\ last.in.path = "/timeout" /\ last.in.has
              /\ last.in.val = Itoa(n) \o <<"s">>) =>
            /\ last.slept = n
            /\ last.out = "answered"
            /\ last.code = 200
            /\ last.w.body = "OK"

\* A /timeout request of the longest duration has been answered.
C10_Witness ==
    /\ Done /\ last.in.path = "/timeout"
    /\ last.in.val = Itoa(MaxSleep) \o <<"s">>
    /\ last.slept = MaxSleep /\ last.code = 200

\* C12: /headersize?size=n for n >= 0 is answered 200 with one header
\* X-Header-Size whose value has length n; for n = 0 the header is there
\* with an empty value.
C12_HeaderOfSize ==
    \A n \in (0..MaxSize) \cup {10} :
        (Done /\ last.in.path = "/headersize" /\ last.in.has /\ last.in.val = Itoa(n)) =>
            /\ last.out = "answered"
            /\ last.code = 200
            /\ Len(HeaderValues(last.w, "X-Header-Size")) = 1
            /\ Len(HeaderValues(last.w, "X-Header-Size")[1]) = n
            /\ n = 0 => HeaderValues(last.w, "X-Header-Size") = <<"">>

\* /headersize?size=0 and /headersize?size=10 have been answered with the
\* header, empty for size 0.
C12_Witness ==
    /\ Done /\ last.in.path = "/headersize" /\ last.in.val = Itoa(0)
    /\ last.code = 200
    /\ HeaderValues(last.w, "X-Header-Size") = <<"">>

\* C13: /headersize without a size, with an empty one, with one that is no
\* number or with a negative one is answered 400 with a body that says why.
C13_BadSizeAnswered400 ==
    (Done /\ last.in.path = "/headersize"
          /\ (~last.in.has \/ ~Atoi(last.in.val).ok \/ Atoi(last.in.val).val < 0)) =>
        /\ last.out = "answered"
        /\ last.code = 400
        /\ last.w.body # ""

\* The standard Fibonacci sequence, computed term after term.
RECURSIVE FibLinear(_, _, _)
FibLinear(n, a, b) == IF n = 0 THEN a ELSE FibLinear(n - 1, b, a + b)

Fib(n) == FibLinear(n, 0, 1)

\* fibonacci agrees with the sequence on 0..MaxFib.
FibonacciAgrees ==
    /\ \A n \in 0..MaxFib : fibonacci(n) = <<Fib(n), Fib(n + 1)>>
    /\ fibonacci(0)[1] = 0 /\ fibonacci(1)[1] = 1
    /\ fibonacci(10)[1] = 55 /\ fibonacci(20)[1] = 6765

\* C14: fibonacci(n) is the pair (F(n), F(n+1)) of the standard sequence,
\* and /fibonacci?n=<n> is answered 200 with F(n) in decimal.
C14_FibonacciStandard ==
    /\ FibonacciAgrees
    /\ \A n \in FibonacciArgs :
        (Done /\ last.in.path = "/fibonacci" /\ last.in.has /\ last.in.val = Itoa(n)) =>
            /\ last.out = "answered"
            /\ last.code = 200
            /\ last.w.body = IntText(Fib(n))
            /\ n = 0 => last.w.body = "0"
            /\ n = 1 => last.w.body = "1"
            /\ n = 10 => last.w.body = "55"
            /\ n = 20 => last.w.body = "6765"

\* /fibonacci?n=10 has been answered 55.
C14_Witness ==
    /\ Done /\ last.in.path = "/fibonacci" /\ last.in.val = Itoa(10)
    /\ last.code = 200 /\ last.w.body = "55"

\* The first answer of the target that the body of a /request names.
Target == last.in.far.hops[1]

\* A /request whose body decodes and whose outbound request can be built.
Relayed ==
    Done /\ last.in.target = "requestHandler" /\ last.in.far.json /\ last.in.far.req

\* C15: when the target answers, the relay answers with the target's
\* status code and the target's body.
C15_RelayExact ==
    (Relayed /\ Target.kind = "response" /\ Target.readable) =>
        /\ last.out = "answered"
        /\ last.code = Target.status
        /\ last.w.body = Target.body

\* C16: a body that does not decode, an outbound request that cannot be
\* built, a transport error and a response body that breaks off are each
\* answered 400 with the error text.
C16_RelayFailure400 ==
    (Done /\ last.in.target = "requestHandler") =>
        /\ ~last.in.far.json =>
            /\ last.out = "answered" /\ last.code = 400
            /\ last.w.body = "invalid character '}' looking for beginning of value\n"
        /\ (last.in.far.json /\ ~last.in.far.req) =>
            /\ last.out = "answered" /\ last.code = 400
            /\ last.w.body = "net/http: invalid method\n"
        /\ (Relayed /\ Target.kind = "error") =>
            /\ last.out = "answered" /\ last.code = 400
            /\ last.w.body = Target.text \o "\n"
        /\ (Relayed /\ Target.kind = "response" /\ ~Target.location /\ ~Target.readable) =>
            /\ last.out = "answered" /\ last.code = 400
            /\ last.w.body = "unexpected EOF\n"

\* The relay has answered 400 for a target that cannot be reached.
C16_Witness ==
    /\ Relayed /\ Target.kind = "error"
    /\ last.code = 400
    /\ last.w.body = "dial tcp: connect: connection refused\n"

\* C17: a request for a path that no route is registered for is answered
\* 404 and reaches no endpoint handler.
C17_UnmatchedPath404 ==
    (Done /\ cfg \in ServerConfigs \cup LegacyConfigs
          /\ last.in.path \notin Registered(cfg)) =>
        /\ last.in.target = "notFound"
        /\ last.out = "answered"
        /\ last.code = 404

\* C11: once the caller of a /timeout or /request in flight is gone, the
\* handler stops at once: the request does not stay in flight while time
\* passes.
C11_GoneCallerStopsHandler ==
    \A i \in Reqs : reqs[i].gone => reqs[i].late = 0

\* The calls whose interceptor has placed the request id in the context.
Placed == {i \in Calls : calls[i].pc \in {"handling", "done"}}

\* The intercepted calls that came with no x-request-id value, or with an
\* empty first one.
Generated ==
    {i \in Calls : /\ calls[i].pc # "arrived"
                   /\ (Len(calls[i].md) = 0 \/ calls[i].md[1] = "")}

\* C18: the request id in the context of a call is the caller's first
\* x-request-id value when there is one and it is not empty, and otherwise
\* an id generated for this call; every later step of the call reads that
\* same id.
C18_RequestIDPlacedOnce ==
    \A i \in Placed :
        /\ (Len(calls[i].md) > 0 /\ calls[i].md[1] # "") =>
            calls[i].ctx = calls[i].md[1] /\ calls[i].myid = 0
        /\ (Len(calls[i].md) = 0 \/ calls[i].md[1] = "") =>
            /\ calls[i].myid \in 1..reqid
            /\ calls[i].ctx = GeneratedID(prefix, calls[i].myid)
        /\ calls[i].ctx # ""
        /\ calls[i].seen \subseteq {calls[i].ctx}

\* A call with the values "first", "second" and a call with an empty first
\* value have both had their id read back by a later step.
C18_Witness ==
    \E i, j \in Placed :
        /\ calls[i].md = <<"first", "second">> /\ calls[i].seen = {"first"}
        /\ calls[j].md = <<"", "second">> /\ calls[j].seen = {calls[j].ctx}
        /\ calls[j].myid > 0

\* C19: two calls of one process that arrive without an x-request-id get
\* different generated ids, whichever interceptors handle them and however
\* their steps interleave.
C19_GeneratedIDsDiffer ==
    \A i, j \in Generated :
        i # j => /\ calls[i].requestID # calls[j].requestID
                 /\ calls[i].myid # calls[j].myid

\* A unary and a streaming call without x-request-id have both been given
\* an id, the later arrival first.
C19_Witness ==
    \E i, j \in Generated :
        /\ i < j
        /\ calls[i].kind = "unary" /\ calls[j].kind = "stream"
        /\ calls[i].md = <<>> /\ calls[j].md = <<>>
        /\ calls[j].myid < calls[i].myid

\* The x-request-id values among the headers of an outbound call.
RequestIDsSent(c) ==
    LET ks == {k \in 1..Len(c.out) : c.out[k].name = RequestIDHeader}
    IN  [k \in ks |-> c.out[k].value]

\* C20: the outbound call of the Request relay carries at most one
\* x-request-id value: the one of the caller's headers map when it has one,
\* and the request id of the context only when it has none.
C20_OneRequestIDSent ==
    \A i \in Calls :
        calls[i].pc = "done" =>
            LET sent == RequestIDsSent(calls[i])
            IN  /\ Cardinality(DOMAIN sent) <= 1
                /\ calls[i].headers # <<>> =>
                    \A k \in DOMAIN sent : sent[k] = calls[i].headers[1].value
                /\ calls[i].headers = <<>> =>
                    \A k \in DOMAIN sent : sent[k] = calls[i].ctx

\* The inputs of Request that cannot succeed.
RequestFails ==
    \/ ~reply.in.target.conn
    \/ ~reply.in.target.parser
    \/ reply.in.target.invoke # "nil"

\* C21: for every input, and so for a uri no connection can be made for, an
\* unreachable target, an unknown method and a message that does not parse,
\* Request returns an error status and does not panic.
C21_RequestReturnsStatus ==
    reply.method = "Request" =>
        /\ reply.panic = NoPanic
        /\ RequestFails => reply.code # 0

\* The 17 status names in the order of their codes.
StandardNames ==
    <<"OK", "CANCELLED", "UNKNOWN", "INVALID_ARGUMENT", "DEADLINE_EXCEEDED", "NOT_FOUND",
      "ALREADY_EXISTS", "PERMISSION_DENIED", "RESOURCE_EXHAUSTED", "FAILED_PRECONDITION",
      "ABORTED", "OUT_OF_RANGE", "UNIMPLEMENTED", "INTERNAL", "UNAVAILABLE", "DATA_LOSS",
      "UNAUTHENTICATED">>

\* C22: Status with one of the 17 status names returns the code of that
\* name (no error for OK), with an empty or "random" status a code of the
\* table, and with anything else Internal.
C22_StatusByName ==
    reply.method = "Status" =>
        /\ reply.panic = NoPanic
        /\ \A k \in 1..17 :
            reply.in.status = StandardNames[k] =>
                /\ reply.code = k - 1
                /\ (k = 1) <=> (reply.msg = "")
        /\ reply.in.status \in {"", "random"} => reply.code \in {0, 3, 5, 13, 14}
        /\ (\A k \in 1..17 : reply.in.status # StandardNames[k])
              /\ reply.in.status \notin {"", "random"} => reply.code = 13

\* Status has returned Canceled for CANCELLED.
C22_Witness ==
    /\ reply.method = "Status" /\ reply.in.status = "CANCELLED"
    /\ reply.code = 1 /\ reply.msg = "Canceled"

\* C29: when a handler panics after it has committed the status, the
\* recovery leaves the status as it is and writes nothing more to the
\* response.
C29_CommittedResponseKept ==
    (Done /\ cfg \in {"TestRecoverer", "TestInstrumentOtel"}
          /\ Raised # NoPanic /\ Written.code # 0) =>
        /\ last.out = "answered"
        /\ last.w.code = Written.code
        /\ last.w.body = Written.body

\* C30: on the chain of run (recovery, request id, instrumentation) every
\* log line of a request carries the request id, the "Recover panic." line
\* and the "Request completed." line among them.
C30_LogLinesCarryRequestID ==
    (Done /\ cfg = "run") => \A k \in 1..Len(last.logs) : last.logs[k].rid

\* What the echoes so far should be: the data frames read, without the one
\* the read loop is still writing back.
Echoed ==
    IF ws.rl = "write" \/ (ws.st = "closed" /\ ws.by = "write")
    THEN SubSeq(ws.got, 1, Len(ws.got) - 1)
    ELSE ws.got

\* C23: every data frame read is written back once, with its payload and
\* its type, in the order the frames came, and nothing else is written.
C23_EchoesInOrder == ws.out = Echoed

\* C24: a session whose peer sends nothing, no data frame and no pong, is
\* closed by the handler when the read deadline has passed.
C24_IdleSessionClosed ==
    <>(~ws.quiet \/ (ws.st = "closed" /\ ws.by = "deadline"))

\* The peer never sent anything and the session was closed on the read
\* deadline.
C24_Witness == ws.quiet /\ ws.st = "closed" /\ ws.by = "deadline" /\ ws.dl = 0

\* C25: when the read loop has ended, the heartbeat loop has returned or
\* is on its way to return: it is not left waiting for a tick that never
\* comes.
C25_HeartbeatEnds ==
    ws.st = "closed" => (ws.hb = "done" \/ ws.hb = "write" \/ ws.tickc)

\* C26: the ping write of the heartbeat loop and the echo write of the read
\* loop are never both in progress on the connection.
C26_WritesSerialized == ~(ws.rl = "write" /\ ws.hb = "write")

C28_PongKeepsSessionOpen ==
    (ws.st = "closed" /\ ws.by = "deadline") => (ws.owed > 0 \/ ws.pingFailed)

\* The peer has answered two pings and the session is open.
C28_Witness == ws.st = "open" /\ ws.pongs = 2 /\ ws.owed = 0 /\ ~ws.pingFailed

====
